---- MODULE Spec2Model ----
(***************************************************************************)
(* Model of the claude-memory stores: the markdown memory store            *)
(* (src/src/memory_manager.py), the JSON idea store                        *)
(* (src/src/idea_manager.py), the dashboard renderer                       *)
(* (src/src/dashboard_generator.py), the CLI handlers that drive them      *)
(* (src/memory.py) and the import check (src/check_import_status.py).      *)
(* Texts are strings.  A memory file is held as the sequence of its lines, *)
(* content.split("\n"), which determines the text (Text joins the lines    *)
(* again): the code splits the content wherever it works on it and writes  *)
(* "\n".join of lines back.                                                *)
(***************************************************************************)
EXTENDS Integers, Sequences, FiniteSets, TLC

VARIABLES
    dirs,       \* the directories that exist, by path relative to BASE_DIR
    files,      \* memory files: category name -> content, for those that exist
    ideasFile,  \* data/ideas.json: <<>> when absent, else <<its JSON value>>
    details,    \* idea detail documents: relative path -> content
    dashboard,  \* dashboard.html: <<>> when absent, else <<what was rendered>>
    clock,      \* the wall clock, in minutes after 2024-01-01 10:00
    pre,        \* the stores as they were when the last operation was called
    last,       \* the last operation: its name, arguments and outcome
    used,       \* how many operations have been called
    procs,      \* the memory calls running at the same time, each with its
                \* position and what it has read; <<>> when calls run alone
    run         \* the run of check_import_status.py: <<>> when there is none

vars == <<dirs, files, ideasFile, details, dashboard, clock, pre, last, used,
          procs, run>>

(***************************************************************************)
(* Bounds of the model.                                                    *)
(***************************************************************************)
MaxOps   == 3   \* operations called on the stores
MaxClock == 1   \* minutes the clock may advance
MaxIdeas == 5   \* ideas in the index the read operations are called on
MaxEntries == 2 \* entries in the memory files the read operations are called on
MaxPages == 2   \* pages a database of the import answers a query with

(***************************************************************************)
(* Python string primitives.                                               *)
(***************************************************************************)
Char(s, i) == SubSeq(s, i, i)

\* str.startswith
StartsWith(s, p) == Len(s) >= Len(p) /\ SubSeq(s, 1, Len(p)) = p

\* str.endswith
EndsWith(s, p) == Len(s) >= Len(p) /\ SubSeq(s, Len(s) - Len(p) + 1, Len(s)) = p

\* the first position (0-based, as in Python) in lo..hi at which t occurs in
\* s, -1 when there is none; the range is halved to keep the evaluation shallow
RECURSIVE FindBetween(_, _, _, _)
FindBetween(s, t, lo, hi) ==
    IF lo > hi THEN -1
    ELSE IF lo = hi THEN (IF SubSeq(s, lo + 1, lo + Len(t)) = t THEN lo ELSE -1)
    ELSE LET mid  == (lo + hi) \div 2
             left == FindBetween(s, t, lo, mid)
         IN  IF left >= 0 THEN left ELSE FindBetween(s, t, mid + 1, hi)

\* str.find(t, i): the first position at or after i at which t occurs in s
FindFrom(s, t, i) == FindBetween(s, t, i, Len(s) - Len(t))

\* str.find
Find(s, t) == FindFrom(s, t, 0)

\* t in s
Contains(s, t) == Find(s, t) >= 0

Min(S) == CHOOSE x \in S : \A y \in S : x <= y

\* str.replace(old, new, 1): the first occurrence replaced
ReplaceFirst(s, old, new) ==
    LET i == Find(s, old)
    IN  IF i < 0 THEN s
        ELSE SubSeq(s, 1, i) \o new \o SubSeq(s, i + Len(old) + 1, Len(s))

\* the count of non-overlapping occurrences of t in s from position i on
RECURSIVE CountFrom(_, _, _)
CountFrom(s, t, i) ==
    LET j == FindFrom(s, t, i)
    IN  IF j < 0 THEN 0 ELSE 1 + CountFrom(s, t, j + Len(t))

\* str.count
Count(s, t) == IF t = "" THEN Len(s) + 1 ELSE CountFrom(s, t, 0)

\* the lines of s from position i on
RECURSIVE SplitFrom(_, _)
SplitFrom(s, i) ==
    LET j == FindFrom(s, "\n", i)
    IN  IF j < 0 THEN <<SubSeq(s, i + 1, Len(s))>>
        ELSE <<SubSeq(s, i + 1, j)>> \o SplitFrom(s, j + 1)

\* str.split("\n")
SplitLines(s) == SplitFrom(s, 0)

\* "\n".join(lines)
RECURSIVE JoinLines(_)
JoinLines(lines) ==
    IF lines = <<>> THEN ""
    ELSE IF Len(lines) = 1 THEN lines[1]
    ELSE lines[1] \o "\n" \o JoinLines(Tail(lines))

Whitespace == {" ", "\n", "\t", "\r"}

\* str.strip()
RECURSIVE Strip(_)
Strip(s) ==
    IF s = "" THEN s
    ELSE IF Char(s, 1) \in Whitespace THEN Strip(SubSeq(s, 2, Len(s)))
    ELSE IF Char(s, Len(s)) \in Whitespace THEN Strip(SubSeq(s, 1, Len(s) - 1))
    ELSE s

Digits == {"0", "1", "2", "3", "4", "5", "6", "7", "8", "9"}

ToUpper ==
    [a |-> "A", b |-> "B", c |-> "C", d |-> "D", e |-> "E", f |-> "F", g |-> "G",
     h |-> "H", i |-> "I", j |-> "J", k |-> "K", l |-> "L", m |-> "M", n |-> "N",
     o |-> "O", p |-> "P", q |-> "Q", r |-> "R", s |-> "S", t |-> "T", u |-> "U",
     v |-> "V", w |-> "W", x |-> "X", y |-> "Y", z |-> "Z"]

ToLower ==
    [A |-> "a", B |-> "b", C |-> "c", D |-> "d", E |-> "e", F |-> "f", G |-> "g",
     H |-> "h", I |-> "i", J |-> "j", K |-> "k", L |-> "l", M |-> "m", N |-> "n",
     O |-> "o", P |-> "p", Q |-> "q", R |-> "r", S |-> "s", T |-> "t", U |-> "u",
     V |-> "v", W |-> "w", X |-> "x", Y |-> "y", Z |-> "z"]

LowerLetters == DOMAIN ToUpper

LowerChar(c) == IF c \in DOMAIN ToLower THEN ToLower[c] ELSE c

UpperChar(c) == IF c \in DOMAIN ToUpper THEN ToUpper[c] ELSE c

\* str.lower()
RECURSIVE Lower(_)
Lower(s) == IF s = "" THEN s ELSE LowerChar(Char(s, 1)) \o Lower(SubSeq(s, 2, Len(s)))

\* str.upper()
RECURSIVE Upper(_)
Upper(s) == IF s = "" THEN s ELSE UpperChar(Char(s, 1)) \o Upper(SubSeq(s, 2, Len(s)))

\* str.title() of a single lower-case word
Title(s) == IF s = "" THEN s ELSE UpperChar(Char(s, 1)) \o SubSeq(s, 2, Len(s))

(***************************************************************************)
(* The memory store: src/src/memory_manager.py                             *)
(***************************************************************************)
MEMORY_CATEGORIES ==
    [user        |-> "User profile, personal context, communication style",
     projects    |-> "Active projects, status, key decisions, architecture",
     preferences |-> "Technical preferences, tools, languages, coding style",
     decisions   |-> "Important decisions made and their reasoning"]

\* the order in which Python iterates over the MEMORY_CATEGORIES dict
CategoryOrder == <<"user", "projects", "preferences", "decisions">>

MEMORIES_DIR == "memories"

\* datetime.now().strftime("%Y-%m-%d %H:%M") when the clock shows minute t
Timestamp(t) == "2024-01-01 10:0" \o Char("0123456789", t + 1)

\* datetime.now().strftime("%Y-%m-%d")
Today(t) == "2024-01-01"

FileExists(fs, category) == category \in DOMAIN fs

\* the text of a file held as its lines
Text(lines) == JoinLines(lines)

\* the lines of text \o more, from the lines of text
AppendText(lines, more) ==
    LET parts == SplitLines(more)
    IN  SubSeq(lines, 1, Len(lines) - 1)
        \o <<lines[Len(lines)] \o parts[1]>>
        \o Tail(parts)

\* filepath.write_text / f.write: the file holds the lines
WriteFile(fs, category, lines) ==
    [c \in DOMAIN fs \cup {category} |-> IF c = category THEN lines ELSE fs[c]]

\* read_category, as content.split("\n")
ReadLines(fs, category) == IF FileExists(fs, category) THEN fs[category] ELSE <<"">>

read_category(fs, category) == Text(ReadLines(fs, category))

\* the entry add_memory builds (lines 75-84)
Entry(timestamp, memory, context) ==
    JoinLines(<<"\n### " \o timestamp>>
              \o (IF context # "" THEN <<"*Context: " \o context \o "*">> ELSE <<>>)
              \o <<"- " \o memory, "">>)

\* the header add_memory gives a new file (lines 88-90)
FileHeader(category) ==
    "# " \o Title(category) \o "\n\n"
    \o "> " \o MEMORY_CATEGORIES[category] \o "\n\n"
    \o "---\n"

\* add_memory opening an existing file with "w" instead of "a"
add_memory_overwrite(ds, fs, now, category, memory, context) ==
    IF category \notin DOMAIN MEMORY_CATEGORIES
    THEN [ok |-> FALSE, dirs |-> ds, files |-> fs]
    ELSE [ok    |-> TRUE,
          dirs  |-> ds \cup {MEMORIES_DIR},
          files |-> WriteFile(fs, category,
                       SplitLines(FileHeader(category)
                                  \o Entry(Timestamp(now), memory, context)))]

\* add_memory calling ensure_memories_dir before it checks the category
add_memory_mkdir_first(ds, fs, now, category, memory, context) ==
    IF category \notin DOMAIN MEMORY_CATEGORIES
    THEN [ok |-> FALSE, dirs |-> ds \cup {MEMORIES_DIR}, files |-> fs]
    ELSE [ok    |-> TRUE,
          dirs  |-> ds \cup {MEMORIES_DIR},
          files |-> IF ~FileExists(fs, category)
                    THEN WriteFile(fs, category,
                             SplitLines(FileHeader(category)
                                        \o Entry(Timestamp(now), memory, context)))
                    ELSE WriteFile(fs, category,
                             AppendText(fs[category],
                                        Entry(Timestamp(now), memory, context)))]

\* add_memory putting the entry before the content of an existing file
add_memory_entry_first(ds, fs, now, category, memory, context) ==
    IF category \notin DOMAIN MEMORY_CATEGORIES
    THEN [ok |-> FALSE, dirs |-> ds, files |-> fs]
    ELSE LET entry == Entry(Timestamp(now), memory, context)
         IN  [ok    |-> TRUE,
              dirs  |-> ds \cup {MEMORIES_DIR},
              files |-> IF ~FileExists(fs, category)
                        THEN WriteFile(fs, category,
                                       SplitLines(FileHeader(category) \o entry))
                        ELSE WriteFile(fs, category,
                                       SplitLines(entry \o Text(fs[category])))]

\* add_memory: the outcome as [ok, dirs, files]
add_memory(ds, fs, now, category, memory, context) ==
    IF category \notin DOMAIN MEMORY_CATEGORIES
    THEN [ok |-> FALSE, dirs |-> ds, files |-> fs]
    ELSE LET entry == Entry(Timestamp(now), memory, context)
         IN  [ok    |-> TRUE,
              dirs  |-> ds \cup {MEMORIES_DIR},
              files |-> IF ~FileExists(fs, category)
                        THEN WriteFile(fs, category,
                                       SplitLines(FileHeader(category) \o entry))
                        ELSE WriteFile(fs, category, AppendText(fs[category], entry))]

\* str.replace(old, new): every occurrence replaced
RECURSIVE ReplaceAll(_, _, _)
ReplaceAll(s, old, new) ==
    LET i == Find(s, old)
    IN  IF i < 0 \/ old = "" THEN s
        ELSE SubSeq(s, 1, i) \o new
             \o ReplaceAll(SubSeq(s, i + Len(old) + 1, Len(s)), old, new)

\* update_memory calling replace without the count of 1
update_memory_replace_all(fs, category, old_text, new_text) ==
    IF ~FileExists(fs, category) THEN [ok |-> FALSE, files |-> fs]
    ELSE LET content == Text(fs[category]) IN
         IF ~Contains(content, old_text) THEN [ok |-> FALSE, files |-> fs]
         ELSE [ok    |-> TRUE,
               files |-> WriteFile(fs, category,
                            SplitLines(ReplaceAll(content, old_text, new_text)))]

\* update_memory: the outcome as [ok, files]
update_memory(fs, category, old_text, new_text) ==
    IF ~FileExists(fs, category) THEN [ok |-> FALSE, files |-> fs]
    ELSE LET content == Text(fs[category]) IN
         IF ~Contains(content, old_text) THEN [ok |-> FALSE, files |-> fs]
         ELSE [ok    |-> TRUE,
               files |-> WriteFile(fs, category,
                            SplitLines(ReplaceFirst(content, old_text, new_text)))]

\* the loop of delete_memory (lines 181-195) from line i on
RECURSIVE DeleteLoop(_, _, _, _, _)
DeleteLoop(lines, i, text_to_remove, new_lines, skip_until_next_entry) ==
    IF i > Len(lines) THEN new_lines
    ELSE LET line == lines[i] IN
         IF Contains(line, text_to_remove)
         THEN LET n1 == IF new_lines # <<>> /\ StartsWith(new_lines[Len(new_lines)], "### ")
                        THEN SubSeq(new_lines, 1, Len(new_lines) - 1) ELSE new_lines
                  n2 == IF n1 # <<>> /\ StartsWith(n1[Len(n1)], "*Context:")
                        THEN SubSeq(n1, 1, Len(n1) - 1) ELSE n1
              IN  DeleteLoop(lines, i + 1, text_to_remove, n2, TRUE)
         ELSE LET skip == IF skip_until_next_entry
                             /\ (StartsWith(line, "### ") \/ StartsWith(line, "---"))
                          THEN FALSE ELSE skip_until_next_entry
              IN  DeleteLoop(lines, i + 1, text_to_remove,
                             IF skip THEN new_lines ELSE Append(new_lines, line), skip)

\* delete_memory dropping the lines that contain the text and nothing else
delete_memory_matching_lines_only(fs, category, text_to_remove) ==
    IF ~FileExists(fs, category) THEN [ok |-> FALSE, files |-> fs]
    ELSE LET new_lines == SelectSeq(fs[category],
                                    LAMBDA line : ~Contains(line, text_to_remove))
         IN  [ok    |-> TRUE,
              files |-> WriteFile(fs, category,
                                  IF new_lines = <<>> THEN <<"">> ELSE new_lines)]

\* delete_memory writing an empty file back
delete_memory_truncating(fs, category, text_to_remove) ==
    IF ~FileExists(fs, category) THEN [ok |-> FALSE, files |-> fs]
    ELSE [ok |-> TRUE, files |-> WriteFile(fs, category, <<"">>)]

\* delete_memory: the outcome as [ok, files]; "\n".join of no lines is the
\* empty text, whose only line is empty
delete_memory(fs, category, text_to_remove) ==
    IF ~FileExists(fs, category) THEN [ok |-> FALSE, files |-> fs]
    ELSE LET new_lines == DeleteLoop(fs[category], 1, text_to_remove, <<>>, FALSE)
         IN  [ok    |-> TRUE,
              files |-> WriteFile(fs, category,
                                  IF new_lines = <<>> THEN <<"">> ELSE new_lines)]

\* the inner loop of search_memories (lines 148-150) from line i on
RECURSIVE MatchingLines(_, _, _)
MatchingLines(lines, i, query_lower) ==
    IF i > Len(lines) THEN <<>>
    ELSE (IF Contains(Lower(lines[i]), query_lower) THEN <<Strip(lines[i])>> ELSE <<>>)
         \o MatchingLines(lines, i + 1, query_lower)

\* the outer loop of search_memories from the k-th category on
RECURSIVE SearchLoop(_, _, _)
SearchLoop(fs, k, query_lower) ==
    IF k > Len(CategoryOrder) THEN <<>>
    ELSE LET category == CategoryOrder[k]
             lines    == ReadLines(fs, category)
             matching_lines == IF lines = <<"">> THEN <<>>
                               ELSE MatchingLines(lines, 1, query_lower)
         IN  (IF matching_lines # <<>>
              THEN <<[category |-> category, matches |-> matching_lines]>>
              ELSE <<>>)
             \o SearchLoop(fs, k + 1, query_lower)

\* search_memories comparing the lower-cased lines with the query as given
search_memories_query_as_given(fs, query) == SearchLoop(fs, 1, query)

\* search_memories
search_memories(fs, query) == SearchLoop(fs, 1, Lower(query))

\* the bullets generate_context_summary takes from a file (line 217), from
\* line i on: the lines that start with "- " once stripped, as they are
RECURSIVE SummaryBullets(_, _)
SummaryBullets(lines, i) ==
    IF i > Len(lines) THEN <<>>
    ELSE (IF StartsWith(Strip(lines[i]), "- ") THEN <<lines[i]>> ELSE <<>>)
         \o SummaryBullets(lines, i + 1)

\* the loop of generate_context_summary over the categories that
\* read_all_memories returns, from the k-th category on
RECURSIVE SummaryLoop(_, _)
SummaryLoop(fs, k) ==
    IF k > Len(CategoryOrder) THEN <<>>
    ELSE LET category == CategoryOrder[k]
             lines    == ReadLines(fs, category)
             bullets  == IF \A i \in DOMAIN lines : Strip(lines[i]) = "" THEN <<>>
                         ELSE SummaryBullets(lines, 1)
         IN  (IF bullets # <<>>
              THEN <<"## " \o Title(category)>> \o bullets \o <<"">>
              ELSE <<>>)
             \o SummaryLoop(fs, k + 1)

\* generate_context_summary: the parts it joins with "\n"
generate_context_summary(fs, now) ==
    IF \A c \in DOMAIN MEMORY_CATEGORIES :
          \A i \in DOMAIN ReadLines(fs, c) : Strip(ReadLines(fs, c)[i]) = ""
    THEN <<"No memories stored yet.">>
    ELSE <<"# Claude Memory Context\n", "*Last loaded: " \o Timestamp(now) \o "*\n">>
         \o SummaryLoop(fs, 1)

\* list_categories counting "- " wherever it stands
list_categories_dash_anywhere(fs) ==
    [category \in DOMAIN MEMORY_CATEGORIES |->
        IF read_category(fs, category) # ""
        THEN Count(read_category(fs, category), "- ") ELSE 0]

\* list_categories
list_categories(fs) ==
    [category \in DOMAIN MEMORY_CATEGORIES |->
        IF read_category(fs, category) # ""
        THEN Count(read_category(fs, category), "\n- ") ELSE 0]

(***************************************************************************)
(* The dashboard renderer: src/src/dashboard_generator.py.  The extract_*  *)
(* operators take content.split("\n").                                     *)
(***************************************************************************)
\* line[a:] of Python
From(s, a) == IF a >= Len(s) THEN "" ELSE SubSeq(s, a + 1, Len(s))

\* line[10:-1] of Python
ContextOf(line) == IF Len(line) <= 11 THEN "" ELSE SubSeq(line, 11, Len(line) - 1)

IsContextLine(line) == StartsWith(line, "*Context:") /\ EndsWith(line, "*")

\* the DONE test giving way to TODO
IsDone_unless_todo(upper) == Contains(upper, "DONE") /\ ~Contains(upper, "TODO")

\* the status keyword tests extract_tasks and extract_project_entries share
\* (upper is text.upper())
IsDone(upper) == Contains(upper, "DONE")
IsInProgress(upper) == Contains(upper, "IN PROGRESS") \/ Contains(upper, "IN-PROGRESS")
IsTodo(upper) == Contains(upper, "TODO")

\* the loop of extract_tasks from line i on
RECURSIVE TasksLoop(_, _, _, _)
TasksLoop(lines, i, current_context, tasks) ==
    IF i > Len(lines) THEN tasks
    ELSE LET line == Strip(lines[i]) IN
         IF IsContextLine(line)
         THEN TasksLoop(lines, i + 1, ContextOf(line), tasks)
         ELSE IF ~StartsWith(line, "- ")
         THEN TasksLoop(lines, i + 1, current_context, tasks)
         ELSE IF Contains(Lower(current_context), "idea backlog")
         THEN TasksLoop(lines, i + 1, current_context, tasks)
         ELSE LET text  == From(line, 2)
                  upper == Upper(text)
              IN  TasksLoop(lines, i + 1, current_context,
                  IF IsDone(upper)
                  THEN [tasks EXCEPT !.done = Append(@, text)]
                  ELSE IF IsInProgress(upper)
                  THEN [tasks EXCEPT !.in_progress = Append(@, text)]
                  ELSE IF IsTodo(upper)
                  THEN [tasks EXCEPT !.todo = Append(@, text)]
                  ELSE tasks)

extract_tasks(lines) ==
    TasksLoop(lines, 1, "", [done |-> <<>>, in_progress |-> <<>>, todo |-> <<>>])

RECURSIVE BulletsLoop(_, _)
BulletsLoop(lines, i) ==
    IF i > Len(lines) THEN <<>>
    ELSE LET line == Strip(lines[i]) IN
         (IF StartsWith(line, "- ") THEN <<From(line, 2)>> ELSE <<>>)
         \o BulletsLoop(lines, i + 1)

extract_bullets(lines) == BulletsLoop(lines, 1)

\* the loop of extract_project_entries testing the context as it is written,
\* without lower()
RECURSIVE ProjectEntriesLoop_case_sensitive(_, _, _)
ProjectEntriesLoop_case_sensitive(lines, i, current_context) ==
    IF i > Len(lines) THEN <<>>
    ELSE LET line == Strip(lines[i]) IN
         IF IsContextLine(line)
         THEN ProjectEntriesLoop_case_sensitive(lines, i + 1, ContextOf(line))
         ELSE IF ~StartsWith(line, "- ")
         THEN ProjectEntriesLoop_case_sensitive(lines, i + 1, current_context)
         ELSE IF Contains(current_context, "idea backlog")
         THEN ProjectEntriesLoop_case_sensitive(lines, i + 1, current_context)
         ELSE LET text   == From(line, 2)
                  upper  == Upper(text)
                  status == IF IsDone(upper) THEN "done"
                            ELSE IF IsInProgress(upper) THEN "progress"
                            ELSE IF IsTodo(upper) THEN "todo"
                            ELSE "info"
              IN  <<[text |-> text, status |-> status]>>
                  \o ProjectEntriesLoop_case_sensitive(lines, i + 1, current_context)

\* the loop of extract_project_entries from line i on
RECURSIVE ProjectEntriesLoop(_, _, _)
ProjectEntriesLoop(lines, i, current_context) ==
    IF i > Len(lines) THEN <<>>
    ELSE LET line == Strip(lines[i]) IN
         IF IsContextLine(line)
         THEN ProjectEntriesLoop(lines, i + 1, ContextOf(line))
         ELSE IF ~StartsWith(line, "- ")
         THEN ProjectEntriesLoop(lines, i + 1, current_context)
         ELSE IF Contains(Lower(current_context), "idea backlog")
         THEN ProjectEntriesLoop(lines, i + 1, current_context)
         ELSE LET text   == From(line, 2)
                  upper  == Upper(text)
                  status == IF IsDone(upper) THEN "done"
                            ELSE IF IsInProgress(upper) THEN "progress"
                            ELSE IF IsTodo(upper) THEN "todo"
                            ELSE "info"
              IN  <<[text |-> text, status |-> status]>>
                  \o ProjectEntriesLoop(lines, i + 1, current_context)

extract_project_entries(lines) == ProjectEntriesLoop(lines, 1, "")

\* the loop of extract_entries_with_context from line i on
RECURSIVE EntriesLoop(_, _, _, _)
EntriesLoop(lines, i, current_timestamp, current_context) ==
    IF i > Len(lines) THEN <<>>
    ELSE LET line == Strip(lines[i]) IN
         IF StartsWith(line, "### ")
         THEN EntriesLoop(lines, i + 1, From(line, 4), current_context)
         ELSE IF IsContextLine(line)
         THEN EntriesLoop(lines, i + 1, current_timestamp, ContextOf(line))
         ELSE IF StartsWith(line, "- ")
         THEN <<[timestamp |-> current_timestamp,
                 context   |-> current_context,
                 text      |-> From(line, 2)]>>
              \o EntriesLoop(lines, i + 1, current_timestamp, current_context)
         ELSE EntriesLoop(lines, i + 1, current_timestamp, current_context)

extract_entries_with_context(lines) == EntriesLoop(lines, 1, "", "")

\* content.strip() is empty: every line is blank
IsBlank(lines) == \A i \in DOMAIN lines : Strip(lines[i]) = ""

\* read_all_memories: the categories whose content is not blank
read_all_memories(fs) ==
    [c \in {k \in DOMAIN MEMORY_CATEGORIES : ~IsBlank(ReadLines(fs, k))}
        |-> ReadLines(fs, c)]

\* memories.get(category, ""), as lines
MemoriesGet(memories, category) ==
    IF category \in DOMAIN memories THEN memories[category] ELSE <<"">>

RECURSIVE Reverse(_)
\* reversed() giving the list in its own order
Reverse_in_file_order(seq) == seq

Reverse(seq) == IF seq = <<>> THEN <<>> ELSE Append(Reverse(Tail(seq)), Head(seq))

\* sum(len(extract_bullets(v)) for v in memories.values())
RECURSIVE SumBullets(_, _)
SumBullets(memories, i) ==
    IF i > Len(CategoryOrder) THEN 0
    ELSE Len(extract_bullets(MemoriesGet(memories, CategoryOrder[i])))
         + SumBullets(memories, i + 1)

\* load_ideas: [ok, ideas]; data.get raises when the stored value is no object
load_ideas(ideasF) ==
    IF ideasF = <<>> THEN [ok |-> TRUE, ideas |-> <<>>]
    ELSE IF ideasF[1].kind # "obj" THEN [ok |-> FALSE, ideas |-> <<>>]
    ELSE IF "ideas" \in DOMAIN ideasF[1].v
         THEN [ok |-> TRUE, ideas |-> ideasF[1].v.ideas]
         ELSE [ok |-> TRUE, ideas |-> <<>>]

\* generate_dashboard_html: [ok, html], html being the data the document shows
generate_dashboard_html(fs, ideasF, now) ==
    LET memories == read_all_memories(fs)
        tasks    == extract_tasks(MemoriesGet(memories, "projects"))
        loaded   == load_ideas(ideasF)
    IN  [ok   |-> loaded.ok,
         html |-> [now           |-> Timestamp(now),
                   tasks         |-> tasks,
                   total_tasks   |-> Len(tasks.done) + Len(tasks.in_progress)
                                     + Len(tasks.todo),
                   roadmap_items |-> extract_project_entries(
                                         MemoriesGet(memories, "projects")),
                   activity      |-> Reverse(extract_entries_with_context(
                                         MemoriesGet(memories, "decisions"))),
                   ideas         |-> loaded.ideas,
                   all_bullets   |-> SumBullets(memories, 1)]]

\* a panel without its empty-state text
Panel_without_empty_text(cards, empty_text) == cards

\* one panel of the document: a card per item, or the empty-state text when
\* there is none
Panel(cards, empty_text) == IF cards = <<>> THEN <<empty_text>> ELSE cards

\* status_labels.get(status, "")
status_labels(status) ==
    IF status = "done" THEN "Done"
    ELSE IF status = "progress" THEN "In Progress"
    ELSE IF status = "todo" THEN "To Do"
    ELSE ""

\* the panels of the document written from html, as the texts they show; the
\* idea backlog is the panel after renderIdeas has run on DOMContentLoaded
Panels(html) ==
    [todo        |-> Panel(html.tasks.todo, "No pending tasks"),
     in_progress |-> Panel(html.tasks.in_progress, "Nothing in progress"),
     done        |-> Panel(html.tasks.done, "Nothing completed yet"),
     roadmap     |-> Panel([i \in DOMAIN html.roadmap_items |->
                               status_labels(html.roadmap_items[i].status)
                               \o html.roadmap_items[i].text],
                           "No projects tracked yet."),
     backlog     |-> Panel([i \in DOMAIN html.ideas |-> html.ideas[i].title],
                           "No ideas parked yet."),
     activity    |-> Panel([i \in DOMAIN html.activity |-> html.activity[i].text],
                           "No activity recorded yet.")]

\* save_dashboard under the try/except of _auto_regenerate_dashboard and
\* _regenerate_dashboard: the new dashboard file; a failed rendering leaves it be
save_dashboard(fs, ideasF, now, old) ==
    LET r == generate_dashboard_html(fs, ideasF, now)
    IN  IF r.ok THEN <<r.html>> ELSE old

(***************************************************************************)
(* The idea store: src/src/idea_manager.py                                 *)
(*                                                                         *)
(* A JSON value is a record tagged by kind: "null", "num" (n: the number), *)
(* "str" (s: the string), "arr" (items: a sequence of strings) or "obj"    *)
(* (v: a function from its keys to their values).  The value under the key *)
(* ideas of an index is a sequence of idea records.                        *)
(***************************************************************************)
IDEAS_DIR == "memories/ideas"
DATA_DIR  == "data"

\* _ensure_dirs: mkdir(parents=True) of data/ and memories/ideas/
ensure_dirs(ds) == ds \cup {DATA_DIR, MEMORIES_DIR, IDEAS_DIR}

\* _load_ideas
load_ideas_index(ideasF) ==
    IF ideasF # <<>> THEN ideasF[1] ELSE [kind |-> "obj", v |-> [ideas |-> <<>>]]

\* json.loads of a payload text.  A text is malformed, or a literal, or an
\* object written as its sequence of <<key, value>> members; of a repeated key
\* the last member counts.
json_loads(text) ==
    IF text.kind = "malformed" THEN [ok |-> FALSE, value |-> [kind |-> "null"]]
    ELSE IF text.kind # "obj" THEN [ok |-> TRUE, value |-> text]
    ELSE LET keys == {text.members[i][1] : i \in DOMAIN text.members}
             lastOf(k) == CHOOSE i \in DOMAIN text.members :
                              /\ text.members[i][1] = k
                              /\ \A j \in DOMAIN text.members :
                                     text.members[j][1] = k => j <= i
         IN  [ok    |-> TRUE,
              value |-> [kind |-> "obj",
                         v    |-> [k \in keys |-> text.members[lastOf(k)][2]]]]

\* the Python test: "ideas" in new_data.  [raises, holds]
HasIdeasKey(value) ==
    IF value.kind = "obj"
    THEN [raises |-> FALSE, holds |-> "ideas" \in DOMAIN value.v]
    ELSE IF value.kind = "arr"
    THEN [raises |-> FALSE,
          holds  |-> \E i \in DOMAIN value.items : value.items[i] = "ideas"]
    ELSE IF value.kind = "str"
    THEN [raises |-> FALSE, holds |-> Contains(value.s, "ideas")]
    ELSE [raises |-> TRUE, holds |-> FALSE]

\* data["ideas"] of Python is defined only on an object that has the key
CanIndexIdeas(data) == data.kind = "obj" /\ "ideas" \in DOMAIN data.v

\* Drop the characters of s that are not in [a-z0-9\s-]
RECURSIVE StripNonSlug(_)
StripNonSlug(s) ==
    IF s = "" THEN s
    ELSE LET c == Char(s, 1) IN
         (IF c \in LowerLetters \/ c \in Digits \/ c \in Whitespace \/ c = "-"
          THEN c ELSE "")
         \o StripNonSlug(SubSeq(s, 2, Len(s)))

\* re.sub(r'[\s]+', '-', s) when ws is Whitespace, re.sub(r'-+', '-', s) when
\* ws is {"-"}: each maximal run of characters of ws becomes one "-"
RECURSIVE CollapseRuns(_, _)
CollapseRuns(s, ws) ==
    IF s = "" THEN s
    ELSE IF Char(s, 1) \in ws
    THEN IF Len(s) >= 2 /\ Char(s, 2) \in ws
         THEN CollapseRuns(SubSeq(s, 2, Len(s)), ws)
         ELSE "-" \o CollapseRuns(SubSeq(s, 2, Len(s)), ws)
    ELSE Char(s, 1) \o CollapseRuns(SubSeq(s, 2, Len(s)), ws)

\* str.strip('-')
RECURSIVE StripHyphens(_)
StripHyphens(s) ==
    IF s = "" THEN s
    ELSE IF Char(s, 1) = "-" THEN StripHyphens(SubSeq(s, 2, Len(s)))
    ELSE IF Char(s, Len(s)) = "-" THEN StripHyphens(SubSeq(s, 1, Len(s) - 1))
    ELSE s

\* _slugify
slugify(title) ==
    StripHyphens(CollapseRuns(CollapseRuns(StripNonSlug(Strip(Lower(title))),
                                           Whitespace), {"-"}))

\* the stub detail document add_idea writes
Stub(title, summary, created) ==
    "# " \o title \o "\n\n> " \o summary
    \o "\n\n## Overview\n\n(Add detailed description here)\n\n---\n\n"
    \o "## Implementation Notes\n\n"
    \o "(Add technical details, architecture, dependencies here)\n\n---\n\n"
    \o "## Notes\n\n- Created: " \o created \o "\n- Status: Parked\n"

\* _save_ideas rendering before it writes, and writing nothing when the
\* rendering of the new index fails
save_ideas_render_first(st, data, now) ==
    IF generate_dashboard_html(st.files, <<data>>, now).ok
    THEN [st EXCEPT !.dirs      = ensure_dirs(st.dirs),
                    !.ideasFile = <<data>>,
                    !.dashboard = save_dashboard(st.files, <<data>>, now, st.dashboard)]
    ELSE st

\* _save_ideas: the index written, then the dashboard regenerated from disk
save_ideas(st, data, now) ==
    [st EXCEPT !.dirs      = ensure_dirs(st.dirs),
               !.ideasFile = <<data>>,
               !.dashboard = save_dashboard(st.files, <<data>>, now, st.dashboard)]

\* add_idea storing the new record as the whole list
add_idea_replacing(st, now, title, summary, project_folder) ==
    LET st1     == [st EXCEPT !.dirs = ensure_dirs(st.dirs)]
        data    == load_ideas_index(st.ideasFile)
        idea_id == slugify(title)
        idea    == [id             |-> idea_id,
                    title          |-> title,
                    summary        |-> summary,
                    priority       |-> 0,
                    project_folder |-> project_folder,
                    detail_file    |-> "memories/ideas/" \o idea_id \o ".md",
                    created        |-> Today(now),
                    status         |-> "parked"]
    IN  IF ~CanIndexIdeas(data) THEN [result |-> "raise", st |-> st1]
        ELSE IF \E i \in DOMAIN data.v.ideas : data.v.ideas[i].id = idea_id
        THEN [result |-> "fail", st |-> st1]
        ELSE [result |-> "ok",
              st |-> save_ideas(st1, [data EXCEPT !.v.ideas = <<idea>>], now)]

\* add_idea giving a colliding slug the suffix "-2" instead of refusing it
add_idea_suffixing(st, now, title, summary, project_folder) ==
    LET st1     == [st EXCEPT !.dirs = ensure_dirs(st.dirs)]
        data    == load_ideas_index(st.ideasFile)
        slug    == slugify(title)
        idea_id == IF CanIndexIdeas(data)
                      /\ \E i \in DOMAIN data.v.ideas : data.v.ideas[i].id = slug
                   THEN slug \o "-2" ELSE slug
        idea    == [id             |-> idea_id,
                    title          |-> title,
                    summary        |-> summary,
                    priority       |-> 0,
                    project_folder |-> project_folder,
                    detail_file    |-> "memories/ideas/" \o idea_id \o ".md",
                    created        |-> Today(now),
                    status         |-> "parked"]
    IN  IF ~CanIndexIdeas(data) THEN [result |-> "raise", st |-> st1]
        ELSE [result |-> "ok",
              st |-> save_ideas(st1, [data EXCEPT !.v.ideas = Append(@, idea)], now)]

\* add_idea putting the new record in front of the list
add_idea_prepending(st, now, title, summary, project_folder) ==
    LET st1     == [st EXCEPT !.dirs = ensure_dirs(st.dirs)]
        data    == load_ideas_index(st.ideasFile)
        idea_id == slugify(title)
        idea    == [id             |-> idea_id,
                    title          |-> title,
                    summary        |-> summary,
                    priority       |-> 0,
                    project_folder |-> project_folder,
                    detail_file    |-> "memories/ideas/" \o idea_id \o ".md",
                    created        |-> Today(now),
                    status         |-> "parked"]
    IN  IF ~CanIndexIdeas(data) THEN [result |-> "raise", st |-> st1]
        ELSE IF \E i \in DOMAIN data.v.ideas : data.v.ideas[i].id = idea_id
        THEN [result |-> "fail", st |-> st1]
        ELSE [result |-> "ok",
              st |-> save_ideas(st1, [data EXCEPT !.v.ideas = <<idea>> \o @], now)]

\* add_idea writing the stub whether or not the detail document exists
add_idea_rewriting_stub(st, now, title, summary, project_folder) ==
    LET st1     == [st EXCEPT !.dirs = ensure_dirs(st.dirs)]
        data    == load_ideas_index(st.ideasFile)
        idea_id == slugify(title)
        detail_file == "memories/ideas/" \o idea_id \o ".md"
        idea    == [id             |-> idea_id,
                    title          |-> title,
                    summary        |-> summary,
                    priority       |-> 0,
                    project_folder |-> project_folder,
                    detail_file    |-> detail_file,
                    created        |-> Today(now),
                    status         |-> "parked"]
    IN  IF ~CanIndexIdeas(data) THEN [result |-> "raise", st |-> st1]
        ELSE IF \E i \in DOMAIN data.v.ideas : data.v.ideas[i].id = idea_id
        THEN [result |-> "fail", st |-> st1]
        ELSE LET st2 == save_ideas(st1,
                           [data EXCEPT !.v.ideas = Append(@, idea)], now)
             IN  [result |-> "ok",
                  st |-> [st2 EXCEPT !.details =
                             [f \in DOMAIN @ \cup {detail_file} |->
                                 IF f = detail_file
                                 THEN Stub(title, summary, idea.created)
                                 ELSE @[f]]]]

\* add_idea: [result, st]; project_folder is <<>> for None, else <<folder>>
add_idea(st, now, title, summary, project_folder) ==
    LET st1     == [st EXCEPT !.dirs = ensure_dirs(st.dirs)]
        data    == load_ideas_index(st.ideasFile)
        idea_id == slugify(title)
        detail_file == "memories/ideas/" \o idea_id \o ".md"
        idea    == [id             |-> idea_id,
                    title          |-> title,
                    summary        |-> summary,
                    priority       |-> 0,
                    project_folder |-> project_folder,
                    detail_file    |-> detail_file,
                    created        |-> Today(now),
                    status         |-> "parked"]
    IN  IF ~CanIndexIdeas(data) THEN [result |-> "raise", st |-> st1]
        ELSE IF \E i \in DOMAIN data.v.ideas : data.v.ideas[i].id = idea_id
        THEN [result |-> "fail", st |-> st1]
        ELSE LET st2 == save_ideas(st1,
                           [data EXCEPT !.v.ideas = Append(@, idea)], now)
             IN  [result |-> "ok",
                  st |-> IF detail_file \in DOMAIN st2.details THEN st2
                         ELSE [st2 EXCEPT !.details =
                                  [f \in DOMAIN @ \cup {detail_file} |->
                                      IF f = detail_file
                                      THEN Stub(title, summary, idea.created)
                                      ELSE @[f]]]]

\* the loop the three setters share: the first record with the id gets
\* field set to value and the index is saved
SetField(st, now, idea_id, field, value) ==
    LET data == load_ideas_index(st.ideasFile) IN
    IF ~CanIndexIdeas(data) THEN [result |-> "raise", st |-> st]
    ELSE LET hits == {i \in DOMAIN data.v.ideas : data.v.ideas[i].id = idea_id} IN
         IF hits = {} THEN [result |-> "fail", st |-> st]
         ELSE [result |-> "ok",
               st |-> save_ideas(st,
                          [data EXCEPT !.v.ideas[Min(hits)] =
                              [f \in DOMAIN @ |-> IF f = field THEN value ELSE @[f]]],
                          now)]

\* set_priority without the test of the value
set_priority_unchecked(st, now, idea_id, priority) ==
    SetField(st, now, idea_id, "priority", priority)

set_priority(st, now, idea_id, priority) ==
    IF priority \notin {0, 1, 2, 3} THEN [result |-> "fail", st |-> st]
    ELSE SetField(st, now, idea_id, "priority", priority)

link_project(st, now, idea_id, project_folder) ==
    SetField(st, now, idea_id, "project_folder", <<project_folder>>)

set_status(st, now, idea_id, status) ==
    IF status \notin {"parked", "active", "done"} THEN [result |-> "fail", st |-> st]
    ELSE SetField(st, now, idea_id, "status", status)

\* update_from_json: only json.JSONDecodeError is caught
update_from_json(st, now, json_str) ==
    LET parsed == json_loads(json_str) IN
    IF ~parsed.ok THEN [result |-> "fail", st |-> st]
    ELSE LET has == HasIdeasKey(parsed.value) IN
         IF has.raises THEN [result |-> "raise", st |-> st]
         ELSE IF ~has.holds THEN [result |-> "fail", st |-> st]
         ELSE [result |-> "ok", st |-> save_ideas(st, parsed.value, now)]

\* sort_key of list_ideas
sort_key(idea) == IF idea.priority > 0 THEN idea.priority ELSE 99

\* one step of the stable sort: idea goes behind the records whose key is
\* not greater than its own
RECURSIVE InsertByKey(_, _)
InsertByKey(sorted, idea) ==
    IF sorted = <<>> THEN <<idea>>
    ELSE IF sort_key(Head(sorted)) <= sort_key(idea)
    THEN <<Head(sorted)>> \o InsertByKey(Tail(sorted), idea)
    ELSE <<idea>> \o sorted

\* sorted(ideas, key=sort_key), which is stable
RECURSIVE SortedByKey(_)
SortedByKey(ideas) ==
    IF ideas = <<>> THEN <<>>
    ELSE InsertByKey(SortedByKey(SubSeq(ideas, 1, Len(ideas) - 1)), ideas[Len(ideas)])

\* list_ideas sorting by the priority itself
list_ideas_by_number(ideasF) ==
    LET data == load_ideas_index(ideasF) IN
    IF ~CanIndexIdeas(data) THEN [result |-> "raise", ideas |-> <<>>]
    ELSE LET byNumber[n \in 0..Len(data.v.ideas)] ==
                 IF n = 0 THEN <<>>
                 ELSE LET idea == data.v.ideas[n]
                          keep == {i \in DOMAIN byNumber[n - 1] :
                                      byNumber[n - 1][i].priority <= idea.priority}
                      IN  SubSeq(byNumber[n - 1], 1, Cardinality(keep)) \o <<idea>>
                          \o SubSeq(byNumber[n - 1], Cardinality(keep) + 1, n - 1)
         IN  [result |-> "ok", ideas |-> byNumber[Len(data.v.ideas)]]

\* list_ideas: [result, ideas]
list_ideas(ideasF) ==
    LET data == load_ideas_index(ideasF) IN
    IF ~CanIndexIdeas(data) THEN [result |-> "raise", ideas |-> <<>>]
    ELSE [result |-> "ok", ideas |-> SortedByKey(data.v.ideas)]

(***************************************************************************)
(* The inputs the operations are called with.                              *)
(***************************************************************************)
InputCategories == {"projects", "archive"}
Texts    == {"Ship v1 - DONE", "idea"}
Contexts == {"", "idea backlog"}
Needles  == {"Ship", "idea"}
NewTexts == {"Sail"}

IdeaTitles  == {"Plan B", " plan  b! ", "Log-Viewer"}
Summaries   == {"later"}
InputIds    == {"plan-b", "log-viewer"}
Priorities  == {1, 4}
Statuses    == {"done", "bogus"}
Folders     == {"C:/p"}

IdeaA == [id |-> "plan-b", title |-> "Plan B", summary |-> "later", priority |-> 2,
          project_folder |-> <<>>, detail_file |-> "memories/ideas/plan-b.md",
          created |-> "2024-01-01", status |-> "active"]
IdeaB == [IdeaA EXCEPT !.title = "plan b", !.priority = 0, !.status = "parked"]

\* the JSON texts update_from_json is called with
Payloads ==
    {[kind |-> "malformed"],
     [kind |-> "null"],
     [kind |-> "num", n |-> 5],
     [kind |-> "str", s |-> "notes"],
     [kind |-> "str", s |-> "my ideas"],
     [kind |-> "arr", items |-> <<"notes">>],
     [kind |-> "arr", items |-> <<"ideas">>],
     [kind |-> "obj", members |-> <<>>],
     [kind |-> "obj", members |-> << <<"ideas", <<>> >> >>],
     [kind |-> "obj", members |-> << <<"ideas", <<IdeaA>> >> >>],
     [kind |-> "obj", members |-> << <<"ideas", <<IdeaA, IdeaB>> >> >>],
     [kind |-> "obj", members |-> << <<"ideas", <<IdeaA>> >>, <<"ideas", <<>> >> >>]}

(***************************************************************************)
(* The state machine.                                                      *)
(***************************************************************************)
Stores == [dirs |-> dirs, files |-> files, ideasFile |-> ideasFile,
           details |-> details, dashboard |-> dashboard]

SetStores(st) ==
    /\ dirs' = st.dirs
    /\ files' = st.files
    /\ ideasFile' = st.ideasFile
    /\ details' = st.details
    /\ dashboard' = st.dashboard

EmptyStores == [dirs |-> {}, files |-> <<>>, ideasFile |-> <<>>,
                details |-> <<>>, dashboard |-> <<>>]

\* the stores after  memory.py add decisions "Use markdown" --context "storage"
\* on a fresh checkout
OneDecision ==
    LET r == add_memory({}, <<>>, 0, "decisions", "Use markdown", "storage")
    IN  [EmptyStores EXCEPT !.dirs = r.dirs, !.files = r.files,
                            !.dashboard = save_dashboard(r.files, <<>>, 0, <<>>)]

\* a fresh checkout (no memories/, no data/, no dashboard.html), or one in
\* which one decision was recorded
Init ==
    /\ \E st \in {EmptyStores, OneDecision} :
          /\ dirs = st.dirs
          /\ files = st.files
          /\ ideasFile = st.ideasFile
          /\ details = st.details
          /\ dashboard = st.dashboard
          /\ pre = st
    /\ clock = 0
    /\ last = [op |-> "none", result |-> "none"]
    /\ used = 0
    /\ procs = <<>>
    /\ run = <<>>

\* time passes between two operations
Tick ==
    /\ clock < MaxClock
    /\ clock' = clock + 1
    /\ UNCHANGED <<dirs, files, ideasFile, details, dashboard, pre, last, used,
                   procs, run>>

MemOp ==
    /\ used < MaxOps
    /\ used' = used + 1
    /\ pre' = Stores
    /\ UNCHANGED <<ideasFile, details, clock, procs, run>>

\* cmd_add of memory.py: add_memory, then the dashboard when it succeeded
CmdAdd ==
    /\ MemOp
    /\ \E category \in InputCategories, memory \in Texts, context \in Contexts :
       \E r \in {add_memory(dirs, files, clock, category, memory, context)} :
          /\ dirs' = r.dirs
          /\ files' = r.files
          /\ dashboard' = IF r.ok
                          THEN save_dashboard(r.files, ideasFile, clock, dashboard)
                          ELSE dashboard
          /\ last' = [op |-> "add", category |-> category, memory |-> memory,
                      context |-> context, now |-> clock,
                      result |-> IF r.ok THEN "ok" ELSE "fail"]

\* cmd_delete of memory.py: delete_memory, then the dashboard when it succeeded
CmdDelete ==
    /\ MemOp
    /\ \E category \in InputCategories, text \in Needles :
       \E r \in {delete_memory(files, category, text)} :
          /\ files' = r.files
          /\ dashboard' = IF r.ok
                          THEN save_dashboard(r.files, ideasFile, clock, dashboard)
                          ELSE dashboard
          /\ last' = [op |-> "delete", category |-> category, text |-> text,
                      result |-> IF r.ok THEN "ok" ELSE "fail"]
          /\ UNCHANGED dirs

\* update_memory, which no command of memory.py calls
UpdateMemory ==
    /\ MemOp
    /\ \E category \in InputCategories, old_text \in Needles, new_text \in NewTexts :
       \E r \in {update_memory(files, category, old_text, new_text)} :
          /\ files' = r.files
          /\ last' = [op |-> "update", category |-> category, old_text |-> old_text,
                      new_text |-> new_text,
                      result |-> IF r.ok THEN "ok" ELSE "fail"]
          /\ UNCHANGED <<dirs, dashboard>>

IdeaOp(op, args, r) ==
    /\ used < MaxOps
    /\ used' = used + 1
    /\ SetStores(r.st)
    /\ last' = [op |-> op, args |-> args, result |-> r.result]
    /\ pre' = Stores
    /\ UNCHANGED <<clock, procs, run>>

AddIdea ==
    \E title \in IdeaTitles, summary \in Summaries :
    \E r \in {add_idea(Stores, clock, title, summary, <<>>)} :
        IdeaOp("add_idea", [title |-> title, summary |-> summary], r)

SetPriority ==
    \E idea_id \in InputIds, priority \in Priorities :
    \E r \in {set_priority(Stores, clock, idea_id, priority)} :
        IdeaOp("set_priority", [id |-> idea_id, priority |-> priority], r)

LinkProject ==
    \E idea_id \in InputIds, folder \in Folders :
    \E r \in {link_project(Stores, clock, idea_id, folder)} :
        IdeaOp("link_project", [id |-> idea_id, project_folder |-> folder], r)

SetStatus ==
    \E idea_id \in InputIds, status \in Statuses :
    \E r \in {set_status(Stores, clock, idea_id, status)} :
        IdeaOp("set_status", [id |-> idea_id, status |-> status], r)

UpdateFromJson ==
    \E json_str \in Payloads :
    \E r \in {update_from_json(Stores, clock, json_str)} :
        IdeaOp("update_from_json", [json_str |-> json_str], r)

NextMem == Tick \/ CmdAdd \/ CmdDelete \/ UpdateMemory

NextIdea == AddIdea \/ SetPriority \/ LinkProject \/ SetStatus \/ UpdateFromJson

Next == NextMem \/ NextIdea

\* both stores
Spec == Init /\ [][Next]_vars

\* the memory store alone
SpecMem == Init /\ [][NextMem]_vars

\* the idea store alone
SpecIdea == Init /\ [][NextIdea]_vars

\* the commands that add and delete memories, and the bulk update of the index
NextRegen == CmdAdd \/ CmdDelete \/ UpdateFromJson

SpecRegen == Init /\ [][NextRegen]_vars

(***************************************************************************)
(* The read operations, called on stores that earlier commands wrote.      *)
(***************************************************************************)
\* the title of the k-th idea added
ReadTitle(k) == "Idea " \o Char("123456789", k)

\* the stores after  idea add "Idea k" "later"  and, for a priority other
\* than 0,  idea priority idea-k <priority>,  for each k from k on
RECURSIVE IdeasBuilt(_, _, _)
IdeasBuilt(st, priorities, k) ==
    IF k > Len(priorities) THEN st
    ELSE LET added == add_idea(st, 0, ReadTitle(k), "later", <<>>).st
             ranked == IF priorities[k] = 0 THEN added
                       ELSE set_priority(added, 0, slugify(ReadTitle(k)),
                                         priorities[k]).st
         IN  IdeasBuilt(ranked, priorities, k + 1)

PrioritySeqs == UNION {[1..n -> {0, 1, 2, 3}] : n \in 0..MaxIdeas}

\* the add commands that wrote the memory files
ReadAdds ==
    {[category |-> "projects",  memory |-> "Ship v1 - DONE",       context |-> ""],
     [category |-> "projects",  memory |-> "Ship v1 - DONE",       context |-> "Idea Backlog"],
     [category |-> "projects",  memory |-> "todo: done In-Progress", context |-> "roadmap"],
     [category |-> "projects",  memory |-> "in progress, Todo",   context |-> ""],
     [category |-> "projects",  memory |-> "Write style docs",     context |-> ""],
     [category |-> "decisions", memory |-> "- ship weekly",        context |-> "Done deal"],
     [category |-> "decisions", memory |-> "Use markdown",         context |-> ""],
     [category |-> "user",      memory |-> " likes Style guides ", context |-> ""]}

\* cmd_add on the stores st
AfterAdd(st, call) ==
    LET r == add_memory(st.dirs, st.files, 0, call.category, call.memory, call.context)
    IN  [st EXCEPT !.dirs = r.dirs, !.files = r.files,
                   !.dashboard = IF r.ok
                                 THEN save_dashboard(r.files, st.ideasFile, 0, @)
                                 ELSE @]

RECURSIVE MemoriesBuilt(_, _, _)
MemoriesBuilt(st, calls, k) ==
    IF k > Len(calls) THEN st
    ELSE MemoriesBuilt(AfterAdd(st, calls[k]), calls, k + 1)

AddSeqs == UNION {[1..n -> ReadAdds] : n \in 0..MaxEntries}

\* the stores are st, and were when the last operation was called
StoresAre(st) ==
    /\ dirs = st.dirs
    /\ files = st.files
    /\ ideasFile = st.ideasFile
    /\ details = st.details
    /\ dashboard = st.dashboard
    /\ pre = st

\* stores written by a series of idea commands, or by a series of add commands
\* on an index of no or one idea
InitRead ==
    /\ \/ \E priorities \in PrioritySeqs :
          \E st \in {IdeasBuilt(EmptyStores, priorities, 1)} : StoresAre(st)
       \/ \E calls \in AddSeqs, ideas \in {<<>>, <<1>>} :
          \E st \in {MemoriesBuilt(IdeasBuilt(EmptyStores, ideas, 1), calls, 1)} :
             StoresAre(st)
    /\ clock = 0
    /\ last = [op |-> "none", result |-> "none"]
    /\ used = 0
    /\ procs = <<>>
    /\ run = <<>>

\* a read operation: one is called, on the stores as they are
ReadOp ==
    /\ last.op = "none"
    /\ used' = used + 1
    /\ pre' = Stores
    /\ UNCHANGED <<dirs, files, ideasFile, details, clock, procs, run>>

\* cmd_idea list
ListIdeas ==
    /\ ReadOp
    /\ \E r \in {list_ideas(ideasFile)} :
          last' = [op |-> "list_ideas", result |-> r.result, ideas |-> r.ideas]
    /\ UNCHANGED dashboard

\* cmd_dashboard: save_dashboard, outside any try; the copy to index.html
\* and the git commands that follow are left out
CmdDashboard ==
    /\ ReadOp
    /\ \E r \in {generate_dashboard_html(files, ideasFile, clock)} :
          /\ dashboard' = IF r.ok THEN <<r.html>> ELSE dashboard
          /\ last' = [op |-> "dashboard", result |-> IF r.ok THEN "ok" ELSE "raise"]

\* what cmd_search is called with
Queries == {"SHIP", "todo", "STYLE"}

\* cmd_search
CmdSearch ==
    /\ ReadOp
    /\ \E query \in Queries :
       \E r \in {search_memories(files, query)} :
          last' = [op |-> "search", query |-> query, result |-> "ok", results |-> r]
    /\ UNCHANGED dashboard

\* cmd_categories
CmdCategories ==
    /\ ReadOp
    /\ \E r \in {list_categories(files)} :
          last' = [op |-> "categories", result |-> "ok", counts |-> r]
    /\ UNCHANGED dashboard

NextRead == ListIdeas \/ CmdDashboard \/ CmdSearch \/ CmdCategories

\* the read operations alone
SpecRead == InitRead /\ [][NextRead]_vars

(***************************************************************************)
(* What the claims speak of.                                               *)
(***************************************************************************)
IsBullet(line) == StartsWith(line, "- ")

\* the entries of a file: a "### " header line, then at most one context
\* line, then one bullet line
EntryAt(lines, i) ==
    IF ~StartsWith(lines[i], "### ") THEN <<>>
    ELSE IF i + 1 <= Len(lines) /\ IsBullet(lines[i + 1])
    THEN <<[header |-> lines[i], context |-> "", bullet |-> lines[i + 1]]>>
    ELSE IF i + 2 <= Len(lines) /\ StartsWith(lines[i + 1], "*Context:")
            /\ IsBullet(lines[i + 2])
    THEN <<[header |-> lines[i], context |-> lines[i + 1], bullet |-> lines[i + 2]]>>
    ELSE <<>>

RECURSIVE EntriesFrom(_, _)
EntriesFrom(lines, i) ==
    IF i > Len(lines) THEN <<>> ELSE EntryAt(lines, i) \o EntriesFrom(lines, i + 1)

EntriesOf(lines) == EntriesFrom(lines, 1)

\* the entries whose bullet line contains needle
Matching(entries, needle) ==
    {i \in DOMAIN entries : Contains(entries[i].bullet, needle)}

RemoveAt(seq, i) == SubSeq(seq, 1, i - 1) \o SubSeq(seq, i + 1, Len(seq))

LineCount(lines, line) == Cardinality({i \in DOMAIN lines : lines[i] = line})

\* the file of the category the last memory operation was called on
PreExists == last.category \in DOMAIN pre.files
PreLines  == IF PreExists THEN pre.files[last.category] ELSE <<"">>
PostLines == ReadLines(files, last.category)

Unchanged == Stores = pre

\* C1: delete(C, needle) removes exactly one entry: when several entries of
\* C have a bullet containing needle, only the first of them is removed and
\* every other entry keeps its header, context and bullet lines.
C1_DeleteRemovesOnlyFirstMatch ==
    (last.op = "delete" /\ last.result = "ok"
        /\ Cardinality(Matching(EntriesOf(PreLines), last.text)) >= 2)
    => EntriesOf(PostLines)
         = RemoveAt(EntriesOf(PreLines), Min(Matching(EntriesOf(PreLines), last.text)))

\* C2: delete(C, needle) returns failure and leaves the file unchanged when
\* C has no file or no line of it contains needle.
C2_DeleteFailsWithoutMatch ==
    (last.op = "delete"
        /\ (~PreExists \/ \A i \in DOMAIN PreLines : ~Contains(PreLines[i], last.text)))
    => (last.result = "fail" /\ files = pre.files)

\* C3: when delete removes an entry, the entry's bullet line, its own
\* timestamp header line and, if it has one, its context line all leave the
\* file: of each of them the file holds one line fewer at least.
C3_DeleteRemovesHeaderContextBullet ==
    (last.op = "delete" /\ last.result = "ok")
    => \A i \in Matching(EntriesOf(PreLines), last.text) :
          LET e == EntriesOf(PreLines)[i] IN
          /\ LineCount(PostLines, e.bullet) < LineCount(PreLines, e.bullet)
          /\ LineCount(PostLines, e.header) < LineCount(PreLines, e.header)
          /\ e.context # ""
                => LineCount(PostLines, e.context) < LineCount(PreLines, e.context)

\* the text T of the last add occurs in nothing the add writes around it
AddedTextStandsAlone ==
    /\ last.memory # ""
    /\ ~Contains(last.memory, "\n")
    /\ ~Contains("### " \o Timestamp(last.now), last.memory)
    /\ ~Contains("*Context: " \o last.context \o "*", last.memory) \/ last.context = ""
    /\ ~Contains("- ", last.memory)
    /\ PreExists \/ ~Contains(FileHeader(last.category), last.memory)

\* C4 as stated: for every valid category C and every text T, after
\* add(C, T) the number of occurrences of T in read(C) is exactly one more
\* than before.
C4_AddOneMoreOccurrence ==
    (last.op = "add" /\ last.result = "ok")
    => Count(Text(PostLines), last.memory) = Count(Text(PreLines), last.memory) + 1

\* C4 as amended: for every valid category C and every non-empty
\* single-line text T that occurs neither in the new entry's timestamp
\* header line, nor in its context line, nor in the bullet marker "- ", nor
\* (when the call creates the file) in the file's header block, after
\* add(C, T) the number of occurrences of T in read(C) is exactly one more
\* than before.
C4_AddOneMoreOccurrenceOfStandaloneText ==
    (last.op = "add" /\ last.result = "ok" /\ AddedTextStandsAlone)
    => Count(Text(PostLines), last.memory) = Count(Text(PreLines), last.memory) + 1

\* a text that stands alone was added to a file that held it already
C4_Witness ==
    /\ last.op = "add" /\ last.result = "ok" /\ AddedTextStandsAlone
    /\ PreExists
    /\ Count(Text(PreLines), last.memory) >= 1

\* C5: add with a category outside the four fixed ones returns failure,
\* creates no file and no directory, and leaves every existing file as it was.
C5_AddUnknownCategoryFails ==
    (last.op = "add" /\ last.category \notin DOMAIN MEMORY_CATEGORIES)
    => (last.result = "fail" /\ Unchanged)

\* add was called with an unknown category while category files existed
C5_Witness ==
    /\ last.op = "add" /\ last.category \notin DOMAIN MEMORY_CATEGORIES
    /\ Cardinality(DOMAIN pre.files) >= 2

\* the content with the first occurrence of old replaced by new, stated
\* position by position
IsFirstReplaced(content, old, new, result) ==
    \E i \in 0..(Len(content) - Len(old)) :
        /\ SubSeq(content, i + 1, i + Len(old)) = old
        /\ \A j \in 0..(i - 1) : SubSeq(content, j + 1, j + Len(old)) # old
        /\ result = SubSeq(content, 1, i) \o new
                    \o SubSeq(content, i + Len(old) + 1, Len(content))

\* C6: update(C, old, new) fails and leaves the content unchanged when old is
\* not a substring of C's content or C has no file; otherwise it succeeds,
\* replaces the first occurrence of old and nothing else, and leaves the
\* other files alone.
C6_UpdateReplacesFirstOccurrenceOnly ==
    (last.op = "update")
    => IF ~PreExists \/ ~Contains(Text(PreLines), last.old_text)
       THEN last.result = "fail" /\ Unchanged
       ELSE /\ last.result = "ok"
            /\ IsFirstReplaced(Text(PreLines), last.old_text, last.new_text,
                               Text(PostLines))
            /\ DOMAIN files = DOMAIN pre.files
            /\ \A c \in DOMAIN files \ {last.category} : files[c] = pre.files[c]

\* update succeeded on a content in which old occurred more than once
C6_Witness ==
    /\ last.op = "update" /\ last.result = "ok"
    /\ Count(Text(PreLines), last.old_text) >= 2

Mutations == {"add", "update", "delete", "add_idea", "set_priority", "set_status",
              "link_project", "update_from_json"}

\* what a dashboard shows, but for the time it was written at
Shown(html) == [html EXCEPT !.now = ""]

\* C7: after every successful store mutation the dashboard is regenerated
\* from the on-disk state: once the operation has returned, the dashboard
\* file shows the current content of both stores.
C7_DashboardFollowsEveryMutation ==
    (last.op \in Mutations /\ last.result = "ok")
    => /\ dashboard # <<>>
       /\ Shown(dashboard[1])
            = Shown(generate_dashboard_html(files, ideasFile, clock).html)

\* the records of the stored index: none when the stored value holds no list
IndexIdeas(ideasF) ==
    IF CanIndexIdeas(load_ideas_index(ideasF))
    THEN load_ideas_index(ideasF).v.ideas ELSE <<>>

IndexIds(ideasF) == {IndexIdeas(ideasF)[i].id : i \in DOMAIN IndexIdeas(ideasF)}

\* C8: after any sequence of idea store operations, no two records of the
\* index have the same id.
C8_IdsAreUnique ==
    \A i, j \in DOMAIN IndexIdeas(ideasFile) :
        i # j => IndexIdeas(ideasFile)[i].id # IndexIdeas(ideasFile)[j].id

\* C9 as stated: across any sequence of add, set_priority, set_status,
\* link_project and update_from_bulk, every id that was once in the index is
\* still in the index.
C9_IdsNeverLeave ==
    [][IndexIds(ideasFile) \subseteq IndexIds(ideasFile')]_vars

\* C9 as amended: across any sequence of add, set_priority, set_status and
\* link_project, every id that is in the index stays in the index; only
\* update_from_bulk, which replaces the index by its payload, removes ids.
C9_IdsLeaveOnlyByBulkUpdate ==
    [][last'.op # "update_from_json"
          => IndexIds(ideasFile) \subseteq IndexIds(ideasFile')]_vars

\* add or a setter succeeded on an index that held a record already
C9_Witness ==
    /\ last.op \in {"add_idea", "set_priority", "set_status", "link_project"}
    /\ last.result = "ok"
    /\ IndexIds(pre.ideasFile) # {}

\* the payload text is well-formed JSON
WellFormed(text) == text.kind # "malformed"

\* the payload text is an object with a member named ideas
IsIdeasObject(text) ==
    text.kind = "obj" /\ \E i \in DOMAIN text.members : text.members[i][1] = "ideas"

\* C10: update_from_bulk returns failure, without raising and with the
\* index unchanged, for every well-formed payload that is not an object with
\* a top-level ideas key; for a payload that has the key, the stored index
\* afterwards is the payload.
C10_BulkRejectsOtherPayloads ==
    (last.op = "update_from_json" /\ WellFormed(last.args.json_str))
    => IF IsIdeasObject(last.args.json_str)
       THEN last.result = "ok" /\ ideasFile = <<json_loads(last.args.json_str).value>>
       ELSE last.result = "fail" /\ Unchanged

\* the record a successful add of the last call's title stores
IsNewRecord(idea) ==
    /\ idea.id = slugify(last.args.title)
    /\ idea.title = last.args.title
    /\ idea.summary = last.args.summary
    /\ idea.priority = 0
    /\ idea.status = "parked"

\* C11: idea add with a title whose slug is the id of an existing record
\* returns no record and leaves the index as it was: no record is added,
\* replaced or given another id.
C11_AddCollidingSlugFails ==
    (last.op = "add_idea" /\ slugify(last.args.title) \in IndexIds(pre.ideasFile))
    => (last.result = "fail" /\ ideasFile = pre.ideasFile)

\* add was called with a title that differs from the title of the record
\* holding its slug
C11_Witness ==
    /\ last.op = "add_idea"
    /\ \E i \in DOMAIN IndexIdeas(pre.ideasFile) :
          /\ IndexIdeas(pre.ideasFile)[i].id = slugify(last.args.title)
          /\ IndexIdeas(pre.ideasFile)[i].title # last.args.title

\* C12: a successful idea add appends exactly one record at the end of the
\* index, with the title's slug as id, priority 0 and status parked, and
\* leaves the records stored before and their order as they were.
C12_AddAppendsOneRecord ==
    (last.op = "add_idea" /\ last.result = "ok")
    => LET old == IndexIdeas(pre.ideasFile)
           new == IndexIdeas(ideasFile)
       IN  /\ Len(new) = Len(old) + 1
           /\ SubSeq(new, 1, Len(old)) = old
           /\ IsNewRecord(new[Len(new)])

\* add succeeded on an index that held a record
C12_Witness ==
    /\ last.op = "add_idea" /\ last.result = "ok"
    /\ Len(IndexIdeas(pre.ideasFile)) >= 1
    /\ Len(IndexIdeas(ideasFile)) >= 2

Setters == {"set_priority", "set_status", "link_project"}

\* the field the last setter call names
SetterField ==
    IF last.op = "set_priority" THEN "priority"
    ELSE IF last.op = "set_status" THEN "status"
    ELSE "project_folder"

\* the value the last setter call gives the field, as the index stores it
SetterValue ==
    IF last.op = "set_priority" THEN last.args.priority
    ELSE IF last.op = "set_status" THEN last.args.status
    ELSE <<last.args.project_folder>>

\* the value is one the setter's enumeration allows
SetterValueAllowed ==
    IF last.op = "set_priority" THEN last.args.priority \in {0, 1, 2, 3}
    ELSE IF last.op = "set_status" THEN last.args.status \in {"parked", "active", "done"}
    ELSE TRUE

Rank(priority) == IF priority = 0 THEN 4 ELSE priority

\* where the record with the id stands in the stored index
PlaceOf(id) == CHOOSE i \in DOMAIN IndexIdeas(ideasFile) : IndexIdeas(ideasFile)[i].id = id

\* C14: list() returns every record of the index exactly once, ordered by
\* priority 1, then 2, then 3, then 0 last, records of equal priority in
\* their insertion order, and does not change the stored index.
C14_ListOrdersByPriority ==
    (last.op = "list_ideas")
    => LET stored == IndexIdeas(ideasFile)
           listed == last.ideas
       IN  /\ last.result = "ok"
           /\ Len(listed) = Len(stored)
           /\ \A i \in DOMAIN stored :
                 Cardinality({j \in DOMAIN listed : listed[j] = stored[i]}) = 1
           /\ \A i, j \in DOMAIN listed :
                 i < j => \/ Rank(listed[i].priority) < Rank(listed[j].priority)
                          \/ /\ listed[i].priority = listed[j].priority
                             /\ PlaceOf(listed[i].id) < PlaceOf(listed[j].id)
           /\ Unchanged

\* list() was called on an index with the priorities 0, 2, 1, 0, 3
C14_Witness ==
    /\ last.op = "list_ideas"
    /\ Len(IndexIdeas(ideasFile)) = 5
    /\ [i \in 1..5 |-> IndexIdeas(ideasFile)[i].priority] = <<0, 2, 1, 0, 3>>
    /\ [i \in 1..5 |-> last.ideas[i].priority] = <<1, 2, 3, 0, 0>>

CountIn(seq, x) == Cardinality({i \in DOMAIN seq : seq[i] = x})

\* the entries of the projects file, and whether the context line of an
\* entry contains "idea backlog" in any letter case
ProjectEntries == EntriesOf(ReadLines(files, "projects"))
IsBacklog(e) == Contains(Lower(e.context), "idea backlog")
BulletText(e) == From(e.bullet, 2)

\* how many entries of the projects file outside the idea backlog have the text
Listable(text) ==
    Cardinality({i \in DOMAIN ProjectEntries :
                    ~IsBacklog(ProjectEntries[i]) /\ BulletText(ProjectEntries[i]) = text})

\* the class of a bullet text: the first keyword present, in the order DONE,
\* IN PROGRESS / IN-PROGRESS, TODO, in any letter case
ClassOf(text) ==
    LET upper == Upper(text) IN
    IF Contains(upper, "DONE") THEN "done"
    ELSE IF Contains(upper, "IN PROGRESS") \/ Contains(upper, "IN-PROGRESS") THEN "progress"
    ELSE IF Contains(upper, "TODO") THEN "todo"
    ELSE "info"

\* the task bucket of a class
BucketOf(class) == IF class = "progress" THEN "in_progress" ELSE class

RoadmapTexts == [i \in DOMAIN dashboard[1].roadmap_items |->
                    dashboard[1].roadmap_items[i].text]

\* C15: a projects bullet is left out of the task counts and the roadmap
\* only when the context line of its own entry contains "idea backlog":
\* every entry with no or another context is in the roadmap and, when its
\* text has a keyword, in the bucket of its class, whatever was added before.
C15_OnlyOwnBacklogContextExcludes ==
    (last.op = "dashboard" /\ last.result = "ok")
    => \A i \in DOMAIN ProjectEntries :
          LET e == ProjectEntries[i]
              text == BulletText(e)
          IN  ~IsBacklog(e)
              => /\ CountIn(RoadmapTexts, text) >= Listable(text)
                 /\ ClassOf(text) # "info"
                      => CountIn(dashboard[1].tasks[BucketOf(ClassOf(text))], text)
                            >= Listable(text)

\* C16: every projects bullet whose entry has a context line containing
\* "idea backlog", in any letter case, is absent from the three task buckets
\* and from the roadmap whatever keywords its text has: of each text they
\* hold no more items than there are entries outside the backlog with that
\* text; and the idea list of the dashboard is the index all the same.
C16_BacklogEntriesAreExcluded ==
    (last.op = "dashboard" /\ last.result = "ok")
    => /\ \A i \in DOMAIN RoadmapTexts :
             CountIn(RoadmapTexts, RoadmapTexts[i]) <= Listable(RoadmapTexts[i])
       /\ \A b \in {"done", "in_progress", "todo"} :
             \A i \in DOMAIN dashboard[1].tasks[b] :
                CountIn(dashboard[1].tasks[b], dashboard[1].tasks[b][i])
                   <= Listable(dashboard[1].tasks[b][i])
       /\ dashboard[1].ideas = IndexIdeas(ideasFile)

\* the dashboard was rendered from a projects file with a keyword bullet
\* under a context "Idea Backlog" and a bullet outside the backlog, and from
\* an index that holds an idea
C16_Witness ==
    /\ last.op = "dashboard" /\ last.result = "ok"
    /\ \E i \in DOMAIN ProjectEntries :
          /\ IsBacklog(ProjectEntries[i])
          /\ ~Contains(ProjectEntries[i].context, "idea backlog")
          /\ ClassOf(BulletText(ProjectEntries[i])) = "done"
    /\ RoadmapTexts # <<>>
    /\ dashboard[1].ideas # <<>>

\* C17: each projects bullet that is not excluded is in at most one task
\* bucket, the one of the first keyword present in the order DONE, IN
\* PROGRESS / IN-PROGRESS, TODO (in any letter case), and in none when it has
\* no keyword; its roadmap status is that same class, info when it has none.
C17_FirstKeywordDecidesTheClass ==
    (last.op = "dashboard" /\ last.result = "ok")
    => \A i \in DOMAIN dashboard[1].roadmap_items :
          LET item == dashboard[1].roadmap_items[i] IN
          /\ item.status = ClassOf(item.text)
          /\ \A b \in {"done", "in_progress", "todo"} :
                CountIn(dashboard[1].tasks[b], item.text)
                   = IF b = BucketOf(ClassOf(item.text))
                     THEN CountIn(RoadmapTexts, item.text) ELSE 0

\* the dashboard lists a bullet with all three keywords and one with none
C17_Witness ==
    /\ last.op = "dashboard" /\ last.result = "ok"
    /\ \E i, j \in DOMAIN dashboard[1].roadmap_items :
          /\ Contains(Upper(RoadmapTexts[i]), "TODO")
          /\ Contains(Upper(RoadmapTexts[i]), "IN-PROGRESS")
          /\ dashboard[1].roadmap_items[i].status = "done"
          /\ dashboard[1].roadmap_items[j].status = "info"

\* rendering the dashboard from the stores as they are raises
RenderRaises == ~generate_dashboard_html(files, ideasFile, clock).ok

\* C18: when the dashboard regeneration that follows a store mutation
\* raises, the change is persisted all the same and the mutation reports
\* success: a bulk update stores its payload, an add stores its bullet, a
\* delete leaves no line with the needle, and the dashboard file stays as it
\* was.
C18_RenderFailureIsSwallowed ==
    /\ (last.op = "update_from_json"
           /\ json_loads(last.args.json_str).ok
           /\ ~HasIdeasKey(json_loads(last.args.json_str).value).raises
           /\ HasIdeasKey(json_loads(last.args.json_str).value).holds
           /\ ~generate_dashboard_html(files,
                  <<json_loads(last.args.json_str).value>>, clock).ok)
       => /\ last.result = "ok"
          /\ ideasFile = <<json_loads(last.args.json_str).value>>
          /\ dashboard = pre.dashboard
    /\ (last.op = "add" /\ last.category \in DOMAIN MEMORY_CATEGORIES /\ RenderRaises)
       => /\ last.result = "ok"
          /\ LineCount(PostLines, "- " \o last.memory)
                = LineCount(PreLines, "- " \o last.memory) + 1
          /\ dashboard = pre.dashboard
    /\ (last.op = "delete" /\ PreExists /\ RenderRaises)
       => /\ last.result = "ok"
          /\ \A i \in DOMAIN PostLines : ~Contains(PostLines[i], last.text)
          /\ dashboard = pre.dashboard

\* an add succeeded although the dashboard, which an earlier add had
\* written, could not be rendered again
C18_Witness ==
    /\ last.op = "add" /\ last.result = "ok"
    /\ RenderRaises
    /\ dashboard # <<>>
    /\ files # pre.files

\* the query occurs in the line, letter case apart
OccursIn(line, query) == Contains(Upper(line), Upper(query))

\* the lines of the category's file in which the query occurs, trimmed, in
\* the order of the file
Hits(category, query) ==
    LET lines == ReadLines(files, category)
        at    == {i \in DOMAIN lines : OccursIn(lines[i], query)}
        nth[n \in 0..Len(lines)] ==
            IF n = 0 THEN <<>>
            ELSE IF n \in at THEN Append(nth[n - 1], Strip(lines[n]))
            ELSE nth[n - 1]
    IN  nth[Len(lines)]

\* C19: search(query) matches the query as a substring of each line, letter
\* case apart; it returns one result for each category with a matching line
\* and none for the others, and a category's result lists all its matching
\* lines, trimmed, in the order of the file.
C19_SearchListsMatchingLines ==
    (last.op = "search")
    => /\ \A c \in DOMAIN MEMORY_CATEGORIES :
             Cardinality({i \in DOMAIN last.results : last.results[i].category = c})
                = IF Hits(c, last.query) # <<>> THEN 1 ELSE 0
       /\ \A i \in DOMAIN last.results :
             /\ last.results[i].category \in DOMAIN MEMORY_CATEGORIES
             /\ last.results[i].matches = Hits(last.results[i].category, last.query)
       /\ Unchanged

\* a search found lines in two categories, two lines in one of them, by a
\* query whose letter case is not that of the lines, and returned a line
\* without the blank it ends with in the file
C19_Witness ==
    /\ last.op = "search"
    /\ Len(last.results) >= 2
    /\ \E i \in DOMAIN last.results : Len(last.results[i].matches) >= 2
    /\ \A i \in DOMAIN last.results :
          \A j \in DOMAIN last.results[i].matches :
             ~Contains(last.results[i].matches[j], last.query)
    /\ \E i \in DOMAIN last.results :
          \E j \in DOMAIN ReadLines(files, last.results[i].category) :
             LET line == ReadLines(files, last.results[i].category)[j] IN
             /\ OccursIn(line, last.query)
             /\ Strip(line) # line

\* the bullet lines stored in the category's file
BulletLines(category) ==
    LET lines == ReadLines(files, category)
    IN  Cardinality({i \in DOMAIN lines : StartsWith(Strip(lines[i]), "- ")})

\* how many bullet lines the section of the category has in the summary: the
\* parts between the section's title and the empty part that ends it; none
\* when the summary has no such section
SectionBullets(parts, category) ==
    LET titles == {i \in DOMAIN parts : parts[i] = "## " \o Title(category)}
    IN  IF titles = {} THEN 0
        ELSE LET t == CHOOSE i \in titles : TRUE
                 e == Min({i \in DOMAIN parts : i > t /\ parts[i] = ""})
             IN  e - t - 1

IdeaOps == {"add_idea", "set_priority", "link_project", "set_status",
            "update_from_json"}

\* C21: after a successful idea add a detail document exists at the new
\* record's detail_file path, holding the stub when no document was there
\* before; and no idea operation, add included, changes or removes a detail
\* document that already exists.
C21_DetailDocumentsAreWrittenOnce ==
    /\ (last.op = "add_idea" /\ last.result = "ok")
       => LET new  == IndexIdeas(ideasFile)
              path == new[Len(new)].detail_file
          IN  /\ path \in DOMAIN details
              /\ path \notin DOMAIN pre.details
                 => details[path] = Stub(last.args.title, last.args.summary,
                                         Today(clock))
    /\ last.op \in IdeaOps
       => \A f \in DOMAIN pre.details :
             f \in DOMAIN details /\ details[f] = pre.details[f]

\* add succeeded at a path whose detail document was written for an earlier
\* idea of another title, and the document is still that earlier one
C21_Witness ==
    /\ last.op = "add_idea" /\ last.result = "ok"
    /\ LET new  == IndexIdeas(ideasFile)
           path == new[Len(new)].detail_file
       IN  /\ path \in DOMAIN pre.details
           /\ path \in DOMAIN details
           /\ details[path] # Stub(last.args.title, last.args.summary,
                                   Today(clock))

\* C22: rendering the dashboard when there is no memory file and no
\* ideas.json does not fail; the document shows zero for every task count and
\* for the ideas, and every panel (the three task columns, the roadmap, the
\* idea backlog and the activity log) shows its empty-state text.
C22_EmptyStoresRenderEmptyStates ==
    (last.op = "dashboard" /\ DOMAIN files = {} /\ ideasFile = <<>>)
    => /\ last.result = "ok"
       /\ dashboard # <<>>
       /\ LET html == dashboard[1] IN
          /\ html.total_tasks = 0
          /\ Len(html.tasks.todo) = 0
          /\ Len(html.tasks.in_progress) = 0
          /\ Len(html.tasks.done) = 0
          /\ Len(html.ideas) = 0
          /\ Panels(html) = [todo        |-> <<"No pending tasks">>,
                             in_progress |-> <<"Nothing in progress">>,
                             done        |-> <<"Nothing completed yet">>,
                             roadmap     |-> <<"No projects tracked yet.">>,
                             backlog     |-> <<"No ideas parked yet.">>,
                             activity    |-> <<"No activity recorded yet.">>]

\* the dashboard was rendered, and a document written, with no memory file,
\* no memories directory and no ideas.json
C22_Witness ==
    /\ last.op = "dashboard" /\ last.result = "ok"
    /\ DOMAIN files = {} /\ ideasFile = <<>> /\ dirs = {}
    /\ dashboard # <<>>
    /\ pre.dashboard = <<>>

\* the memory commands a user has: add and delete, and the passing of time
NextAddDelete == Tick \/ CmdAdd \/ CmdDelete

SpecAddDelete == Init /\ [][NextAddDelete]_vars

\* every header line of lines is followed by at most one context line and
\* then one bullet line, and every bullet line is the bullet of a header
HeadersHaveOneBullet(lines) ==
    /\ \A i \in DOMAIN lines :
          StartsWith(lines[i], "### ") => EntryAt(lines, i) # <<>>
    /\ \A i \in DOMAIN lines :
          IsBullet(lines[i])
          => \/ i > 1 /\ StartsWith(lines[i - 1], "### ")
             \/ i > 2 /\ StartsWith(lines[i - 1], "*Context:")
                      /\ StartsWith(lines[i - 2], "### ")

\* C23: after any series of add and delete calls with single-line texts and
\* contexts, every timestamp header line of a category file is followed by
\* an optional context line and then exactly one bullet line: no header is
\* left without its bullet and no two bullets share a header.
C23_HeadersKeepTheirBullet ==
    \A c \in DOMAIN files : HeadersHaveOneBullet(files[c])

(***************************************************************************)
(* Two memory calls on one category running at the same time.  A call is   *)
(* a series of file operations: add_memory tests filepath.exists() and     *)
(* then writes (write_text for a new file, an append otherwise);           *)
(* update_memory and delete_memory read the whole file with read_text and  *)
(* then write it whole with write_text.  Each file operation is one step;  *)
(* what a call computes between its read and its write is computed from    *)
(* what it read.                                                           *)
(***************************************************************************)
Procs == {1, 2}

SharedCategory == "projects"

\* the calls the two clients make on SharedCategory
ConcurrentCalls ==
    {[op |-> "add",    text |-> "idea", new_text |-> ""],
     [op |-> "update", text |-> "Ship", new_text |-> "Sail"],
     [op |-> "delete", text |-> "Ship", new_text |-> ""]}

\* the stores after n entries were added to SharedCategory
RECURSIVE ShipsAdded(_)
ShipsAdded(n) ==
    IF n = 0 THEN EmptyStores
    ELSE AfterAdd(ShipsAdded(n - 1),
                  [category |-> SharedCategory, memory |-> "Ship v1 - DONE",
                   context |-> ""])

InitConcurrent ==
    /\ \E n \in 0..MaxEntries : \E st \in {ShipsAdded(n)} : StoresAre(st)
    /\ \E calls \in [Procs -> ConcurrentCalls] :
          procs = [p \in Procs |->
                      [call |-> calls[p], pc |-> "start", exists |-> FALSE,
                       content |-> <<>>, result |-> "none", overlapped |-> FALSE]]
    /\ clock = 0
    /\ last = [op |-> "none", result |-> "none"]
    /\ used = 0
    /\ run = <<>>

\* a file holding what a call has read of it
Snapshot(content) == [c \in {SharedCategory} |-> content]

\* fs without the file of category
Without(fs, category) == [c \in DOMAIN fs \ {category} |-> fs[c]]

\* process p takes a step to the position and values of next; a call that
\* starts while the other one is between its read and its write overlaps it
Step(p, next) ==
    LET starts == procs[p].pc = "start"
        meets  == {q \in Procs \ {p} : starts /\ procs[q].pc = "write"}
    IN  /\ procs' = [q \in Procs |->
                       IF q = p THEN [next EXCEPT !.overlapped = @ \/ meets # {}]
                       ELSE IF q \in meets THEN [procs[q] EXCEPT !.overlapped = TRUE]
                       ELSE procs[q]]
        /\ UNCHANGED <<ideasFile, details, dashboard, clock, pre, last, used, run>>

\* add_memory up to filepath.exists() (lines 65-87)
AddExists ==
    \E p \in Procs :
        /\ procs[p].pc = "start" /\ procs[p].call.op = "add"
        /\ dirs' = dirs \cup {MEMORIES_DIR}
        /\ UNCHANGED files
        /\ Step(p, [procs[p] EXCEPT !.pc = "write",
                                    !.exists = FileExists(files, SharedCategory)])

\* add_memory from the write on (lines 88-97): write_text of header and entry
\* when exists() gave False, else the entry appended to the file as it is now
AddWrite ==
    \E p \in Procs :
        /\ procs[p].pc = "write" /\ procs[p].call.op = "add"
        /\ \E r \in {add_memory(dirs,
                                IF procs[p].exists THEN files
                                ELSE Without(files, SharedCategory),
                                clock, SharedCategory, procs[p].call.text, "")} :
              files' = r.files
        /\ UNCHANGED dirs
        /\ Step(p, [procs[p] EXCEPT !.pc = "done", !.result = "ok"])

\* update_memory up to read_text and the test of old_text (lines 112-120)
UpdateRead ==
    \E p \in Procs :
        /\ procs[p].pc = "start" /\ procs[p].call.op = "update"
        /\ UNCHANGED <<dirs, files>>
        /\ \E r \in {update_memory(files, SharedCategory, procs[p].call.text,
                                   procs[p].call.new_text)} :
              IF r.ok
              THEN Step(p, [procs[p] EXCEPT !.pc = "write",
                                            !.content = files[SharedCategory]])
              ELSE Step(p, [procs[p] EXCEPT !.pc = "done", !.result = "fail"])

\* update_memory from replace on (lines 122-124): write_text of what was read,
\* with the replacement made
UpdateWrite ==
    \E p \in Procs :
        /\ procs[p].pc = "write" /\ procs[p].call.op = "update"
        /\ \E r \in {update_memory(Snapshot(procs[p].content), SharedCategory,
                                   procs[p].call.text, procs[p].call.new_text)} :
              files' = WriteFile(files, SharedCategory, r.files[SharedCategory])
        /\ UNCHANGED dirs
        /\ Step(p, [procs[p] EXCEPT !.pc = "done", !.result = "ok"])

\* delete_memory up to read_text (lines 172-176)
DeleteRead ==
    \E p \in Procs :
        /\ procs[p].pc = "start" /\ procs[p].call.op = "delete"
        /\ UNCHANGED <<dirs, files>>
        /\ IF FileExists(files, SharedCategory)
           THEN Step(p, [procs[p] EXCEPT !.pc = "write",
                                         !.content = files[SharedCategory]])
           ELSE Step(p, [procs[p] EXCEPT !.pc = "done", !.result = "fail"])

\* delete_memory from the loop on (lines 177-198): write_text of the lines
\* kept of what was read
DeleteWrite ==
    \E p \in Procs :
        /\ procs[p].pc = "write" /\ procs[p].call.op = "delete"
        /\ \E r \in {delete_memory(Snapshot(procs[p].content), SharedCategory,
                                   procs[p].call.text)} :
              files' = WriteFile(files, SharedCategory, r.files[SharedCategory])
        /\ UNCHANGED dirs
        /\ Step(p, [procs[p] EXCEPT !.pc = "done", !.result = "ok"])

NextConcurrent ==
    AddExists \/ AddWrite \/ UpdateRead \/ UpdateWrite \/ DeleteRead \/ DeleteWrite

SpecConcurrent == InitConcurrent /\ [][NextConcurrent]_vars

\* both calls have returned True
BothReportSuccess ==
    \A p \in Procs : procs[p].pc = "done" /\ procs[p].result = "ok"

\* the calls among the two that are call
CallsOf(call) == {q \in Procs : procs[q].call = call}

\* the lines of lines that contain text
LinesWith(lines, text) == {i \in DOMAIN lines : Contains(lines[i], text)}

\* the effect of the call of process p is in the final file: an added text
\* has one bullet line more for each add of it, a replacement text is in one
\* line more for each update to it, a deleted text is in no line
EffectPresent(p) ==
    LET call   == procs[p].call
        before == ReadLines(pre.files, SharedCategory)
        after  == ReadLines(files, SharedCategory)
    IN  IF call.op = "add"
        THEN LineCount(after, "- " \o call.text)
               = LineCount(before, "- " \o call.text) + Cardinality(CallsOf(call))
        ELSE IF call.op = "update"
        THEN Cardinality(LinesWith(after, call.new_text))
               = Cardinality(LinesWith(before, call.new_text))
                 + Cardinality(CallsOf(call))
        ELSE LinesWith(after, call.text) = {}

\* C24: add, update and delete are not safe when called at the same time.
\* Two calls on one category that both report success leave both their
\* effects in the file whenever neither started between the read and the
\* write of the other; the witness is the interleaving the claim speaks of,
\* where both report success and the effect of one is not in the final file.
C24_EffectsAreLostOnlyWhenCallsInterleave ==
    (BothReportSuccess /\ \E p \in Procs : ~EffectPresent(p))
    => \A p \in Procs : procs[p].overlapped

\* both calls reported success, having interleaved, and the effect of one of
\* them is absent from the final file
C24_Witness ==
    /\ BothReportSuccess
    /\ \A p \in Procs : procs[p].overlapped
    /\ \E p \in Procs : ~EffectPresent(p)

\* the entries of the decisions file, in the order they were added
DecisionEntries == EntriesOf(ReadLines(files, "decisions"))

\* the activity feed of the document rendered last
Activity == dashboard[1].activity

\* the entry the k-th item of the activity feed stands for when the feed
\* runs from the entry added last to the one added first
EntryOfItem(k) == DecisionEntries[Len(DecisionEntries) + 1 - k]

OwnContext(e) == IF e.context = "" THEN "" ELSE ContextOf(e.context)

\* C28: each item of the activity feed carries the timestamp and the context
\* of its own entry; an entry added without context is shown with an empty
\* context, not with the context of an earlier entry of the file.
C28_ActivityItemsCarryTheirOwnContext ==
    (last.op = "dashboard" /\ last.result = "ok"
        /\ Len(Activity) = Len(DecisionEntries))
    => \A k \in DOMAIN Activity :
          /\ Activity[k].timestamp = From(EntryOfItem(k).header, 4)
          /\ Activity[k].context = OwnContext(EntryOfItem(k))

\* the entry the last add was called to write, as its three lines
AddedEntry ==
    [header  |-> "### " \o Timestamp(last.now),
     context |-> IF last.context = "" THEN ""
                 ELSE "*Context: " \o last.context \o "*",
     bullet  |-> "- " \o last.memory]

\* C26: a successful add(C, ...) only appends: the content C's file had is a
\* prefix of the content it has now (no entry that was there is rewritten or
\* moved), the new entry is the last entry of the file, and the files of all
\* other categories are as they were.
C26_AddOnlyAppends ==
    (last.op = "add" /\ last.result = "ok")
    => /\ PreExists => StartsWith(Text(PostLines), Text(PreLines))
       /\ EndsWith(Text(PostLines),
                   Entry(Timestamp(last.now), last.memory, last.context))
       /\ LET entries == EntriesOf(PostLines)
          IN  entries # <<>> /\ entries[Len(entries)] = AddedEntry
       /\ \A c \in (DOMAIN files \cup DOMAIN pre.files) \ {last.category} :
             /\ c \in DOMAIN files /\ c \in DOMAIN pre.files
             /\ files[c] = pre.files[c]

\* an entry was added to a file that held an entry, while another category
\* had a file too
C26_Witness ==
    /\ last.op = "add" /\ last.result = "ok"
    /\ PreExists
    /\ EntriesOf(PreLines) # <<>>
    /\ Len(EntriesOf(PostLines)) = Len(EntriesOf(PreLines)) + 1
    /\ DOMAIN pre.files \ {last.category} # {}

\* the last operation was a successful add of a text T without context to a
\* file that existed, T being in no line of that file nor in the timestamp
\* header of the new entry
AddedFreshText ==
    /\ last.op = "add" /\ last.result = "ok" /\ last.context = ""
    /\ PreExists
    /\ LinesWith(PreLines, last.memory) = {}
    /\ ~Contains("### " \o Timestamp(last.now), last.memory)

\* C27: when category C's file exists and text T occurs in no line of it nor
\* in the timestamp header of the new entry, add(C, T) with no context
\* followed by delete(C, T) leaves C's file as it was before the add.
C27_AddThenDeleteRestoresTheFile ==
    [][(AddedFreshText /\ last'.op = "delete"
           /\ last'.category = last.category /\ last'.text = last.memory)
       => (last'.result = "ok" /\ files'[last.category] = pre.files[last.category])]_vars

\* a delete has just removed the entry added last: its text was in one line
\* only, the bullet of the file's last entry, an entry without context, in a
\* file that held an earlier entry
C27_Witness ==
    /\ last.op = "delete" /\ last.result = "ok"
    /\ PreExists
    /\ Cardinality(LinesWith(PreLines, last.text)) = 1
    /\ LET entries == EntriesOf(PreLines)
       IN  /\ Len(entries) >= 2
           /\ entries[Len(entries)].bullet = "- " \o last.text
           /\ entries[Len(entries)].context = ""
    /\ PostLines = SubSeq(PreLines, 1, Len(PreLines) - 3)

(***************************************************************************)
(* The import check: src/check_import_status.py.  check_import queries     *)
(* each database page by page and records a value for it; log_status adds  *)
(* up the values that are integers.  A recorded value is a record tagged   *)
(* by kind: "int" (n: the number) or "str" (s: the string).  What the      *)
(* Notion API answers a query with is the input of each step.              *)
(***************************************************************************)
\* the names of dbs, in the order of the dict
DbOrder == <<"Expenses", "Income", "Accounts", "Categories">>

IntValue(n) == [kind |-> "int", n |-> n, s |-> ""]
StrValue(s) == [kind |-> "str", n |-> 0, s |-> s]

\* d[k] = v
Put(d, k, v) == [x \in DOMAIN d \cup {k} |-> IF x = k THEN v ELSE d[x]]

\* what a page query is answered with: a status and, with 200, the number of
\* results on the page and has_more
Responses ==
    {[status_code |-> 200, results |-> 1, has_more |-> TRUE],
     [status_code |-> 200, results |-> 1, has_more |-> FALSE],
     [status_code |-> 429, results |-> 0, has_more |-> FALSE],
     [status_code |-> 500, results |-> 0, has_more |-> FALSE]}

\* check_import at the top of the loop over dbs (line 49), with the API key set
InitImport ==
    /\ StoresAre(EmptyStores)
    /\ clock = 0
    /\ last = [op |-> "none", result |-> "none"]
    /\ used = 0
    /\ procs = <<>>
    /\ run = [pc |-> "query", db |-> 1, count |-> 0, has_more |-> TRUE,
              pages |-> 0, results |-> <<>>, answered |-> <<>>, total |-> 0]

ImportFrame ==
    UNCHANGED <<dirs, files, ideasFile, details, dashboard, clock, pre, last,
                used, procs>>

\* the loop over dbs moves on to the next database, or check_import returns
NextDatabase(r) ==
    IF r.db < Len(DbOrder)
    THEN [r EXCEPT !.db = @ + 1, !.count = 0, !.has_more = TRUE, !.pages = 0]
    ELSE [r EXCEPT !.pc = "log"]

\* one pass of the while loop (lines 55-75): a page is queried and answered
QueryPage ==
    /\ run.pc = "query" /\ run.has_more
    /\ \E resp \in Responses :
          /\ resp.has_more => run.pages + 1 < MaxPages
          /\ LET name == DbOrder[run.db]
                 r    == [run EXCEPT !.pages = @ + 1]
             IN  run' =
                   IF resp.status_code = 200
                   THEN [r EXCEPT !.count = @ + resp.results,
                                  !.has_more = resp.has_more]
                   ELSE IF resp.status_code = 429
                   THEN [r EXCEPT !.results = Put(@, name,
                                      StrValue(ToString(run.count)
                                               \o "+ (rate limited)")),
                                  !.answered = Put(@, name, resp.status_code),
                                  !.has_more = FALSE]
                   ELSE [r EXCEPT !.results = Put(@, name,
                                      StrValue("Error: "
                                               \o ToString(resp.status_code))),
                                  !.answered = Put(@, name, resp.status_code),
                                  !.has_more = FALSE]
    /\ ImportFrame

\* the statement after the while loop (line 77)
RecordCount ==
    /\ run.pc = "query" /\ ~run.has_more
    /\ run' = NextDatabase([run EXCEPT !.results =
                               Put(@, DbOrder[run.db], IntValue(run.count))])
    /\ ImportFrame

\* requests.post raises Timeout (lines 79-80)
QueryTimeout ==
    /\ run.pc = "query" /\ run.has_more
    /\ run.pages < MaxPages
    /\ run' = NextDatabase([run EXCEPT !.results =
                               Put(@, DbOrder[run.db],
                                   StrValue(ToString(run.count) \o "+ (timeout)"))])
    /\ ImportFrame

\* sum(v for v in results.values() if isinstance(v, int)), from the k-th
\* database on
RECURSIVE SumOfInts(_, _)
SumOfInts(results, k) ==
    IF k > Len(DbOrder) THEN 0
    ELSE (IF DbOrder[k] \in DOMAIN results /\ results[DbOrder[k]].kind = "int"
          THEN results[DbOrder[k]].n ELSE 0)
         + SumOfInts(results, k + 1)

\* log_status(results), as the total it writes and returns
log_status(results) == SumOfInts(results, 1)

\* main: log_status on what check_import returned
LogStatus ==
    /\ run.pc = "log"
    /\ run' = [run EXCEPT !.pc = "done", !.total = log_status(run.results)]
    /\ ImportFrame

NextImport == QueryPage \/ RecordCount \/ QueryTimeout \/ LogStatus

SpecImport == InitImport /\ [][NextImport]_vars

\* C29: when a page query for a database is answered with 429 or another
\* status that is not 200, the value finally recorded for the database is a
\* marker string and not an integer, so that log_status does not add it to
\* the total.
C29_FailedQueryLeavesItsMarker ==
    run.pc = "done"
    => /\ \A name \in DOMAIN run.answered : run.results[name].kind = "str"
       /\ run.total = SumOfInts([name \in DOMAIN run.results \ DOMAIN run.answered
                                    |-> run.results[name]], 1)

====
